---- MODULE Spec2Model ----
(***************************************************************************)
(* SMS simulation: SenderManager (src/sender_manager.py).                  *)
(*                                                                         *)
(* N sender coroutines and one progress monitor drain a shared list of     *)
(* messages under one asyncio.Lock.  Every statement that reads or writes  *)
(* shared state (msg_pool, stats, lock, the log, stdout) is one step of    *)
(* the task that executes it; sleeps end at any time; the tasks are        *)
(* interleaved at every step.  asyncio's cooperative schedule, which runs  *)
(* a task from one await to the next without interruption, is one of the   *)
(* interleavings.                                                          *)
(***************************************************************************)
EXTENDS Integers, Sequences, FiniteSets, TLC

\* ------------------------------------------------------------------ bounds
\* Largest message pool handed to the constructor.
MaxPool == 3
\* Largest num_senders handed to the constructor.
MaxSenders == 2
\* Largest pool and largest num_senders of the runs checked for termination.
MaxFairPool == 2
MaxFairSenders == 2
\* Largest pool and largest num_senders of the runs with varied send times.
MaxDelayPool == 2
MaxDelaySenders == 1
\* Largest avg_send_time and avg_send_time_factor of the send-time runs.
MaxAvgSendTime == 3
MaxFactor == 4

\* ------------------------------------------------------- constructor inputs
\* An argument is its Python kind and its value; a value of the wrong kind
\* is never compared, so it is carried as 0 (or the empty sequence).
IntArg(v) == [kind |-> "int", val |-> v]
StrArg == [kind |-> "str", val |-> 0]
ListArg(n) == [kind |-> "list", val |-> [i \in 1..n |-> i]]
StrPoolArg == [kind |-> "str", val |-> <<>>]

AvgSendTimeInputs == {StrArg} \cup {IntArg(v) : v \in {1, 2, 3}}
AvgSendTimeFactorInputs == {StrArg} \cup {IntArg(v) : v \in {-1, 0}}
FailureRateInputs == {StrArg} \cup {IntArg(v) : v \in {-1, 0, 50, 100, 101}}
MsgPoolInputs == {StrPoolArg} \cup {ListArg(n) : n \in 0..MaxPool}
NumSendersInputs == {StrArg} \cup {IntArg(v) : v \in 0..MaxSenders}
RefreshRateInputs == {StrArg} \cup {IntArg(v) : v \in {0, 1}}

ArgTuples ==
  [avg_send_time : AvgSendTimeInputs,
   avg_send_time_factor : AvgSendTimeFactorInputs,
   failure_rate : FailureRateInputs,
   msg_pool : MsgPoolInputs,
   num_senders : NumSendersInputs,
   progress_monitor_refresh_rate : RefreshRateInputs]

\* Valid arguments whose send-time interval has several values: factor below,
\* equal to and above avg_send_time is 1, 2 and 3 for avg_send_time = 2.
DelayArgTuples ==
  [avg_send_time : {IntArg(2)},
   avg_send_time_factor : {IntArg(v) : v \in {1, 2}},
   failure_rate : {IntArg(50)},
   msg_pool : {ListArg(n) : n \in 1..MaxDelayPool},
   num_senders : {IntArg(v) : v \in 1..MaxDelaySenders},
   progress_monitor_refresh_rate : {IntArg(1)}]

\* Valid arguments over all pairs of avg_send_time and avg_send_time_factor
\* up to the bounds, for one message and one sender.
SendTimeArgTuples ==
  [avg_send_time : {IntArg(v) : v \in 2..MaxAvgSendTime},
   avg_send_time_factor : {IntArg(v) : v \in 0..MaxFactor},
   failure_rate : {IntArg(50)},
   msg_pool : {ListArg(1)},
   num_senders : {IntArg(1)},
   progress_monitor_refresh_rate : {IntArg(1)}]

\* ------------------------------------------------------------------- state
VARIABLES
  args,        \* the arguments of SenderManager(...), fixed for the run
  pc_main,     \* start_sim: "construct", "raised", "constructed", "gather", "returned"
  exc,         \* the exception the constructor raised, or "none"
  self,        \* the scalar attributes __init__ assigns
  msg_pool,    \* self.msg_pool: the list of pending messages (last = top)
  lock,        \* self.lock: the task holding it, or NoTask
  stats,       \* self.stats
  msgs,        \* the Message objects: send_time and sent_status of each
  pc,          \* the location of every spawned task (0 = monitor, 1..N = senders)
  local,       \* the local variables of every spawned task
  log,         \* the records written by logger.info, in order
  last_report  \* the block most recently printed by the monitor

vars == <<args, pc_main, exc, self, msg_pool, lock, stats, msgs, pc, local,
          log, last_report>>

NoTask == -1
Monitor == 0
NoReport == [printed |-> FALSE, messages_sent |-> 0, average_x100 |-> 0,
             messages_failed |-> 0]
NoSelf == [avg_send_time |-> 0, avg_send_time_factor |-> 0, failure_rate |-> 0,
           num_senders |-> 0, progress_monitor_refresh_rate |-> 0]
NoLocal == [send_time |-> 0, msg_state |-> FALSE, current_msg |-> 0,
            average_send_time |-> [num |-> 0, den |-> 1]]
ZeroStats == [messages_sent |-> 0, messages_failed |-> 0, total_send_time |-> 0]

\* A fresh Message: send_time 0, sent_status False.
Message == [send_time |-> 0, sent_status |-> FALSE]

Senders == 1..self.num_senders
Tasks == DOMAIN pc
InitialPoolSize == Len(args.msg_pool.val)

\* The state before SenderManager(...) is called with arguments drawn from A.
InitFrom(A) ==
  /\ args \in A
  /\ pc_main = "construct"
  /\ exc = "none"
  /\ self = NoSelf
  /\ msg_pool = <<>>
  /\ lock = NoTask
  /\ stats = ZeroStats
  /\ msgs = [m \in 1..Len(args.msg_pool.val) |-> Message]
  /\ pc = <<>>
  /\ local = <<>>
  /\ log = <<>>
  /\ last_report = NoReport

Init == InitFrom(ArgTuples)

\* ------------------------------------------------------------- __init__
\* Variant: the range of num_senders is not checked.
ValidateSkipsNumSenders(a) ==
  IF a.avg_send_time.kind # "int" THEN "TypeError"
  ELSE IF a.avg_send_time.val < 2 THEN "ValueError"
  ELSE IF a.avg_send_time_factor.kind # "int" THEN "TypeError"
  ELSE IF a.avg_send_time_factor.val < 0 THEN "ValueError"
  ELSE IF a.failure_rate.kind # "int" THEN "TypeError"
  ELSE IF a.failure_rate.val < 0 \/ a.failure_rate.val > 100 THEN "ValueError"
  ELSE IF a.msg_pool.kind # "list" THEN "TypeError"
  ELSE IF Len(a.msg_pool.val) < 1 THEN "ValueError"
  ELSE IF a.num_senders.kind # "int" THEN "TypeError"
  ELSE IF a.progress_monitor_refresh_rate.kind # "int" THEN "TypeError"
  ELSE IF a.progress_monitor_refresh_rate.val < 1 THEN "ValueError"
  ELSE "none"

\* The checks of __init__ in source order; the first that fails raises.
Validate(a) ==
  IF a.avg_send_time.kind # "int" THEN "TypeError"
  ELSE IF a.avg_send_time.val < 2 THEN "ValueError"
  ELSE IF a.avg_send_time_factor.kind # "int" THEN "TypeError"
  ELSE IF a.avg_send_time_factor.val < 0 THEN "ValueError"
  ELSE IF a.failure_rate.kind # "int" THEN "TypeError"
  ELSE IF a.failure_rate.val < 0 \/ a.failure_rate.val > 100 THEN "ValueError"
  ELSE IF a.msg_pool.kind # "list" THEN "TypeError"
  ELSE IF Len(a.msg_pool.val) < 1 THEN "ValueError"
  ELSE IF a.num_senders.kind # "int" THEN "TypeError"
  ELSE IF a.num_senders.val < 1 THEN "ValueError"
  ELSE IF a.progress_monitor_refresh_rate.kind # "int" THEN "TypeError"
  ELSE IF a.progress_monitor_refresh_rate.val < 1 THEN "ValueError"
  ELSE "none"

\* self.stats as __init__ creates it.
InitialStats == ZeroStats

Construct ==
  /\ pc_main = "construct"
  /\ exc' = Validate(args)
  /\ IF Validate(args) # "none"
       THEN /\ pc_main' = "raised"
            /\ UNCHANGED <<self, msg_pool, lock, stats>>
       ELSE /\ pc_main' = "constructed"
            /\ self' = [avg_send_time |-> args.avg_send_time.val,
                        avg_send_time_factor |-> args.avg_send_time_factor.val,
                        failure_rate |-> args.failure_rate.val,
                        num_senders |-> args.num_senders.val,
                        progress_monitor_refresh_rate |->
                          args.progress_monitor_refresh_rate.val]
            /\ msg_pool' = args.msg_pool.val
            /\ lock' = NoTask
            /\ stats' = InitialStats
  /\ UNCHANGED <<args, msgs, pc, local, log, last_report>>

\* ------------------------------------------------------------- send_msgs
\* sender_pool: num_senders send_msg() coroutines, then one progress_monitor().
SenderPool(n) == (1..n) \cup {Monitor}

SendMsgs ==
  /\ pc_main = "constructed"
  /\ pc_main' = "gather"
  /\ pc' = [t \in SenderPool(self.num_senders) |-> "loop"]
  /\ local' = [t \in SenderPool(self.num_senders) |-> NoLocal]
  /\ UNCHANGED <<args, exc, self, msg_pool, lock, stats, msgs, log,
                 last_report>>

\* Variant: the wait ends as soon as one awaitable has completed.
GatherAnyDone == \E t \in Tasks : pc[t] = "done"

\* asyncio.gather(*sender_pool) completes when every awaitable has completed.
GatherDone == \A t \in Tasks : pc[t] = "done"

Return ==
  /\ pc_main = "gather"
  /\ GatherDone
  /\ pc_main' = "returned"
  /\ UNCHANGED <<args, exc, self, msg_pool, lock, stats, msgs, pc, local,
                 log, last_report>>

\* ------------------------------------------------------------- asyncio.Lock
\* Variant: the entry does not wait.
CanAcquireAlways(l) == TRUE
\* Variant: the exit leaves the lock with its holder.
ReleasedKept(l) == l

\* async with self.lock: entry waits until the lock is free and takes it.
CanAcquire(l) == l = NoTask
\* Leaving the async with block releases the lock.
Released(l) == NoTask

\* ------------------------------------------------------------- send_msg
Max(x, y) == IF x >= y THEN x ELSE y

\* Variant: the lower end is not kept at 1 or above.
SendTimesUnclamped(avg, factor) == (avg - factor)..(avg + factor)

\* random.randint(max(avg - factor, 1), avg + factor): both ends included.
SendTimes(avg, factor) == Max(avg - factor, 1)..(avg + factor)

\* Variant: the two weights in the other order.
WeightSwapped(state, failure_rate) ==
  IF state THEN failure_rate ELSE 100 - failure_rate

\* The weights of random.choices([True, False], ...), in percent:
\* pass_rate_as_percent for True and failure_rate_as_percent for False.
Weight(state, failure_rate) ==
  IF state THEN 100 - failure_rate ELSE failure_rate

\* Variant: the outcome is drawn without regard to the weights.
MsgStatesUnweighted(failure_rate) == BOOLEAN

\* random.choices never returns an element of weight 0.
MsgStates(failure_rate) == {b \in BOOLEAN : Weight(b, failure_rate) > 0}

\* Variant: the message taken is the first of the list.
PoppedFirst(pool) == pool[1]

\* list.pop(): the last element, and the list without it.
Popped(pool) == pool[Len(pool)]
AfterPop(pool) == SubSeq(pool, 1, Len(pool) - 1)

\* Variant: a failed send is not counted.
UpdatedStatsDropsFailed(st, sent_status, send_time) ==
  IF sent_status
    THEN [st EXCEPT !.messages_sent = @ + 1,
                    !.total_send_time = @ + send_time]
    ELSE st

\* Variant: messages_failed is incremented for every outcome.
UpdatedStatsMissingElse(st, sent_status, send_time) ==
  IF sent_status
    THEN [st EXCEPT !.messages_sent = @ + 1,
                    !.total_send_time = @ + send_time,
                    !.messages_failed = @ + 1]
    ELSE [st EXCEPT !.messages_failed = @ + 1]

\* Variant: the send time is added to the total whatever the outcome.
UpdatedStatsAddsAlways(st, sent_status, send_time) ==
  IF sent_status
    THEN [st EXCEPT !.messages_sent = @ + 1,
                    !.total_send_time = @ + send_time]
    ELSE [st EXCEPT !.messages_failed = @ + 1,
                    !.total_send_time = @ + send_time]

\* Variant: the nominal avg_send_time is added instead of the drawn time.
UpdatedStatsAddsNominal(st, sent_status, send_time) ==
  IF sent_status
    THEN [st EXCEPT !.messages_sent = @ + 1,
                    !.total_send_time = @ + self.avg_send_time]
    ELSE [st EXCEPT !.messages_failed = @ + 1]

\* The statistics update of one processed message.
UpdatedStats(st, sent_status, send_time) ==
  IF sent_status
    THEN [st EXCEPT !.messages_sent = @ + 1,
                    !.total_send_time = @ + send_time]
    ELSE [st EXCEPT !.messages_failed = @ + 1]

\* while self.msg_pool: draw send_time and msg_state, then start the sleep;
\* or leave the loop.
SenderLoop(t) ==
  /\ t \in Tasks /\ t # Monitor
  /\ pc[t] = "loop"
  /\ IF msg_pool # <<>>
       THEN \E d \in SendTimes(self.avg_send_time, self.avg_send_time_factor),
               b \in MsgStates(self.failure_rate) :
              /\ local' = [local EXCEPT ![t].send_time = d, ![t].msg_state = b]
              /\ pc' = [pc EXCEPT ![t] = "sleep"]
       ELSE /\ pc' = [pc EXCEPT ![t] = "done"]
            /\ UNCHANGED local
  /\ UNCHANGED <<args, pc_main, exc, self, msg_pool, lock, stats, msgs, log,
                 last_report>>

\* await asyncio.sleep(send_time) has ended and async with self.lock: is
\* entered.  A task whose sleep has ended and that waits for the lock is still
\* at "sleep": no other task can tell the two apart.
SenderAcquire(t) ==
  /\ t \in Tasks /\ t # Monitor
  /\ pc[t] = "sleep"
  /\ CanAcquire(lock)
  /\ lock' = t
  /\ pc' = [pc EXCEPT ![t] = "recheck"]
  /\ UNCHANGED <<args, pc_main, exc, self, msg_pool, stats, msgs, local, log,
                 last_report>>

\* Variant: the else of the statistics update belongs to the re-check, so
\* an empty pool is counted as a failure.
SenderRecheckCountsEmpty(t) ==
  /\ t \in Tasks /\ t # Monitor
  /\ pc[t] = "recheck"
  /\ pc' = [pc EXCEPT ![t] = IF msg_pool # <<>> THEN "pop" ELSE "release"]
  /\ stats' = IF msg_pool # <<>> THEN stats
              ELSE [stats EXCEPT !.messages_failed = @ + 1]
  /\ UNCHANGED <<args, pc_main, exc, self, msg_pool, lock, msgs, local,
                 log, last_report>>

\* if self.msg_pool:
SenderRecheck(t) ==
  /\ t \in Tasks /\ t # Monitor
  /\ pc[t] = "recheck"
  /\ pc' = [pc EXCEPT ![t] = IF msg_pool # <<>> THEN "pop" ELSE "release"]
  /\ UNCHANGED <<args, pc_main, exc, self, msg_pool, lock, stats, msgs, local,
                 log, last_report>>

\* Variant: only a message that was sent is logged.
SenderPopLogsSent(t) ==
  /\ t \in Tasks /\ t # Monitor
  /\ pc[t] = "pop"
  /\ LET m == Popped(msg_pool) IN
       /\ msg_pool' = AfterPop(msg_pool)
       /\ local' = [local EXCEPT ![t].current_msg = m]
       /\ msgs' = [msgs EXCEPT ![m] = [send_time |-> local[t].send_time,
                                       sent_status |-> local[t].msg_state]]
       /\ log' = IF local[t].msg_state
                   THEN Append(log, [msg |-> m,
                                     send_time |-> local[t].send_time,
                                     sent_status |-> local[t].msg_state])
                   ELSE log
  /\ pc' = [pc EXCEPT ![t] = "stats"]
  /\ UNCHANGED <<args, pc_main, exc, self, lock, stats, last_report>>

\* current_msg = self.msg_pool.pop(); stamp it; logger.info(...)
SenderPop(t) ==
  /\ t \in Tasks /\ t # Monitor
  /\ pc[t] = "pop"
  /\ LET m == Popped(msg_pool) IN
       /\ msg_pool' = AfterPop(msg_pool)
       /\ local' = [local EXCEPT ![t].current_msg = m]
       /\ msgs' = [msgs EXCEPT ![m] = [send_time |-> local[t].send_time,
                                       sent_status |-> local[t].msg_state]]
       /\ log' = Append(log, [msg |-> m,
                              send_time |-> local[t].send_time,
                              sent_status |-> local[t].msg_state])
  /\ pc' = [pc EXCEPT ![t] = "stats"]
  /\ UNCHANGED <<args, pc_main, exc, self, lock, stats, last_report>>

\* Variant: a failed message is put back into the pool to be retried.
SenderStatsRetries(t) ==
  /\ t \in Tasks /\ t # Monitor
  /\ pc[t] = "stats"
  /\ stats' = UpdatedStats(stats, msgs[local[t].current_msg].sent_status,
                           local[t].send_time)
  /\ msg_pool' = IF msgs[local[t].current_msg].sent_status
                   THEN msg_pool
                   ELSE Append(msg_pool, local[t].current_msg)
  /\ pc' = [pc EXCEPT ![t] = "release"]
  /\ UNCHANGED <<args, pc_main, exc, self, lock, msgs, local, log,
                 last_report>>

\* if current_msg.sent_status: ... else: ...
SenderStats(t) ==
  /\ t \in Tasks /\ t # Monitor
  /\ pc[t] = "stats"
  /\ stats' = UpdatedStats(stats, msgs[local[t].current_msg].sent_status,
                           local[t].send_time)
  /\ pc' = [pc EXCEPT ![t] = "release"]
  /\ UNCHANGED <<args, pc_main, exc, self, msg_pool, lock, msgs, local, log,
                 last_report>>

\* async with self.lock: (exit); back to the top of the loop.  The locals
\* are dead here (the next iteration reassigns them before any read), so
\* they are reset.
SenderRelease(t) ==
  /\ t \in Tasks /\ t # Monitor
  /\ pc[t] = "release"
  /\ lock' = Released(lock)
  /\ local' = [local EXCEPT ![t] = NoLocal]
  /\ pc' = [pc EXCEPT ![t] = "loop"]
  /\ UNCHANGED <<args, pc_main, exc, self, msg_pool, stats, msgs, log,
                 last_report>>

\* ------------------------------------------------------- progress_monitor
\* f"{x:.2f}" of x = num / den, in hundredths: rounded to nearest, an exact
\* tie to the even hundredth (exact for the quotients of counts below 200).
Fmt2(num, den) ==
  LET q == (num * 100) \div den
      r == (num * 100) % den
  IN IF 2 * r > den \/ (2 * r = den /\ q % 2 = 1) THEN q + 1 ELSE q

\* Variant: the quotient is taken the other way round.
AverageSendTimeInverted(st) ==
  IF st.total_send_time = 0
    THEN [num |-> 0, den |-> 1]
    ELSE [num |-> st.messages_sent, den |-> st.total_send_time]

\* total_send_time / messages_sent, 0.0 on ZeroDivisionError.
AverageSendTime(st) ==
  IF st.messages_sent = 0
    THEN [num |-> 0, den |-> 1]
    ELSE [num |-> st.total_send_time, den |-> st.messages_sent]

\* Variant: the monitor's loop has no exit.
MonitorLoopForever ==
  /\ Monitor \in Tasks
  /\ pc[Monitor] = "loop"
  /\ pc' = [pc EXCEPT ![Monitor] = "sleep"]
  /\ UNCHANGED <<args, pc_main, exc, self, msg_pool, lock, stats, msgs, local,
                 log, last_report>>

\* while self.msg_pool: start the refresh sleep, or leave the loop.
MonitorLoop ==
  /\ Monitor \in Tasks
  /\ pc[Monitor] = "loop"
  /\ pc' = [pc EXCEPT ![Monitor] = IF msg_pool # <<>> THEN "sleep" ELSE "done"]
  /\ UNCHANGED <<args, pc_main, exc, self, msg_pool, lock, stats, msgs, local,
                 log, last_report>>

\* Variant: the monitor reads the statistics without taking the lock.
MonitorAcquireUnguarded ==
  /\ Monitor \in Tasks
  /\ pc[Monitor] = "sleep"
  /\ pc' = [pc EXCEPT ![Monitor] = "average"]
  /\ UNCHANGED <<args, pc_main, exc, self, msg_pool, lock, stats, msgs, local,
                 log, last_report>>

\* Variant: after its wait the monitor tests the pool again and reports only
\* if it is not empty.
MonitorAcquireRechecks ==
  /\ Monitor \in Tasks
  /\ pc[Monitor] = "sleep"
  /\ CanAcquire(lock)
  /\ IF msg_pool # <<>>
       THEN lock' = Monitor /\ pc' = [pc EXCEPT ![Monitor] = "average"]
       ELSE lock' = lock /\ pc' = [pc EXCEPT ![Monitor] = "loop"]
  /\ UNCHANGED <<args, pc_main, exc, self, msg_pool, stats, msgs, local, log,
                 last_report>>

\* await asyncio.sleep(self.progress_monitor_refresh_rate) has ended and
\* async with self.lock: is entered.
MonitorAcquire ==
  /\ Monitor \in Tasks
  /\ pc[Monitor] = "sleep"
  /\ CanAcquire(lock)
  /\ lock' = Monitor
  /\ pc' = [pc EXCEPT ![Monitor] = "average"]
  /\ UNCHANGED <<args, pc_main, exc, self, msg_pool, stats, msgs, local, log,
                 last_report>>

\* try: average_send_time = ... except ZeroDivisionError: ...
MonitorAverage ==
  /\ Monitor \in Tasks
  /\ pc[Monitor] = "average"
  /\ local' = [local EXCEPT ![Monitor].average_send_time = AverageSendTime(stats)]
  /\ pc' = [pc EXCEPT ![Monitor] = "print"]
  /\ UNCHANGED <<args, pc_main, exc, self, msg_pool, lock, stats, msgs, log,
                 last_report>>

\* The six print calls.
MonitorPrint ==
  /\ Monitor \in Tasks
  /\ pc[Monitor] = "print"
  /\ last_report' =
       [printed |-> TRUE,
        messages_sent |-> stats.messages_sent,
        average_x100 |-> Fmt2(local[Monitor].average_send_time.num,
                              local[Monitor].average_send_time.den),
        messages_failed |-> stats.messages_failed]
  /\ pc' = [pc EXCEPT ![Monitor] = "release"]
  /\ UNCHANGED <<args, pc_main, exc, self, msg_pool, lock, stats, msgs, local,
                 log>>

\* async with self.lock: (exit); back to the top of the loop.
MonitorRelease ==
  /\ Monitor \in Tasks
  /\ pc[Monitor] = "release"
  /\ lock' = Released(lock)
  /\ local' = [local EXCEPT ![Monitor] = NoLocal]
  /\ pc' = [pc EXCEPT ![Monitor] = "loop"]
  /\ UNCHANGED <<args, pc_main, exc, self, msg_pool, stats, msgs, log,
                 last_report>>

\* ------------------------------------------------------------ specification
SenderStep(t) ==
  \/ SenderLoop(t)
  \/ SenderAcquire(t)
  \/ SenderRecheck(t)
  \/ SenderPop(t)
  \/ SenderStats(t)
  \/ SenderRelease(t)

MonitorStep ==
  \/ MonitorLoop
  \/ MonitorAcquire
  \/ MonitorAverage
  \/ MonitorPrint
  \/ MonitorRelease

Next ==
  \/ Construct
  \/ SendMsgs
  \/ \E t \in 1..MaxSenders : SenderStep(t)
  \/ MonitorStep
  \/ Return

Spec == Init /\ [][Next]_vars

\* Runs whose send times vary from message to message.
DelaySpec == InitFrom(DelayArgTuples) /\ [][Next]_vars

\* Runs over the pairs of avg_send_time and avg_send_time_factor.
SendTimeSpec == InitFrom(SendTimeArgTuples) /\ [][Next]_vars

\* The event loop runs every task that is ready: a task whose next step stays
\* possible takes it, and a caller whose awaitable is complete resumes (weak
\* fairness).  A sleep lasts a finite time and asyncio.Lock wakes its waiters
\* first come, first served, so a task that asks for the lock is not passed
\* over for ever by tasks that take it again and again (strong fairness of
\* the entries).
FairInit ==
  /\ Init
  /\ Validate(args) = "none"
  /\ InitialPoolSize <= MaxFairPool
  /\ args.num_senders.val <= MaxFairSenders

FairSpec ==
  /\ FairInit
  /\ [][Next]_vars
  /\ WF_vars(Construct)
  /\ WF_vars(SendMsgs)
  /\ \A t \in 1..MaxSenders :
       WF_vars(SenderStep(t)) /\ SF_vars(SenderAcquire(t))
  /\ WF_vars(MonitorStep) /\ SF_vars(MonitorAcquire)
  /\ WF_vars(Return)

\* Variant: a sleep may end while another task is between two of its awaits.
ResumesAnyTime(t) == TRUE

\* The event loop runs one task at a time, from one await that suspends to
\* the next: a task's asyncio.sleep returns only when every other task is
\* suspended in its own sleep or has finished.  The tasks that gather has
\* just created (still at the top of their loop) run first, so no sleep ends
\* before all of them have started.
Resumes(t) == \A u \in Tasks \ {t} : pc[u] \in {"sleep", "done"}

CoopSenderStep(t) ==
  \/ SenderLoop(t)
  \/ Resumes(t) /\ SenderAcquire(t)
  \/ SenderRecheck(t)
  \/ SenderPop(t)
  \/ SenderStats(t)
  \/ SenderRelease(t)

CoopMonitorStep ==
  \/ MonitorLoop
  \/ Resumes(Monitor) /\ MonitorAcquire
  \/ MonitorAverage
  \/ MonitorPrint
  \/ MonitorRelease

CoopNext ==
  \/ Construct
  \/ SendMsgs
  \/ \E t \in 1..MaxSenders : CoopSenderStep(t)
  \/ CoopMonitorStep
  \/ Return

\* Runs under asyncio's single-threaded event loop: every ready task is run
\* (weak fairness), and a task whose sleep is over is run once the running
\* task suspends (strong fairness of the resumptions).
CoopSpec ==
  /\ FairInit
  /\ [][CoopNext]_vars
  /\ WF_vars(Construct)
  /\ WF_vars(SendMsgs)
  /\ \A t \in 1..MaxSenders :
       WF_vars(CoopSenderStep(t)) /\ SF_vars(Resumes(t) /\ SenderAcquire(t))
  /\ WF_vars(CoopMonitorStep) /\ SF_vars(Resumes(Monitor) /\ MonitorAcquire)
  /\ WF_vars(Return)

\* -------------------------------------------------------------- vocabulary
Constructed == pc_main \in {"constructed", "gather", "returned"}
Spawned == pc_main \in {"gather", "returned"}
Counted == stats.messages_sent + stats.messages_failed
InGuard(t) == pc[t] \in {"recheck", "pop", "stats", "release", "average", "print"}
LogOf(m) == {i \in 1..Len(log) : log[i].msg = m}
InPool(m) == \E i \in 1..Len(msg_pool) : msg_pool[i] = m
AllMessages == 1..InitialPoolSize

\* ---------------------------------------------------------------------- C1
\* C1: when send_msgs() has returned, the pool is empty and
\* messages_sent + messages_failed equals the initial pool size.
C1_RunDrainsAndCounts ==
  pc_main = "returned" =>
    /\ msg_pool = <<>>
    /\ Counted = InitialPoolSize

\* A completed run of the largest pool by the most senders with both outcomes.
C1_Witness ==
  /\ pc_main = "returned"
  /\ InitialPoolSize = MaxPool
  /\ self.num_senders = MaxSenders
  /\ stats.messages_sent > 0
  /\ stats.messages_failed > 0

\* ---------------------------------------------------------------------- C2
\* C2: every message is popped, stamped and logged at most once; it is out of
\* the pool exactly when it has been popped once; no two senders hold the
\* same message; with the guard free every popped message is counted; and
\* after the run every message has been popped exactly once.
C2_EachMessageClaimedOnce ==
  Spawned =>
    /\ \A m \in AllMessages :
         /\ Cardinality(LogOf(m)) <= 1
         /\ InPool(m) <=> LogOf(m) = {}
         /\ \A i \in LogOf(m) :
              /\ msgs[m].send_time = log[i].send_time
              /\ msgs[m].sent_status = log[i].sent_status
         /\ LogOf(m) = {} => msgs[m] = Message
         /\ Cardinality({t \in Tasks : local[t].current_msg = m}) <= 1
    /\ \A i, j \in 1..Len(msg_pool) : msg_pool[i] = msg_pool[j] => i = j
    /\ lock = NoTask => Counted = Len(log)
    /\ pc_main = "returned" => \A m \in AllMessages : Cardinality(LogOf(m)) = 1

\* More senders than messages, every sender past its delay, all messages gone
\* and one sender still to find the pool empty under the guard.
C2_Witness ==
  /\ pc_main = "gather"
  /\ self.num_senders > InitialPoolSize
  /\ Len(log) = InitialPoolSize
  /\ \E t \in Tasks : t # Monitor /\ pc[t] = "recheck"

\* ---------------------------------------------------------------------- C3
\* C3: whenever no task holds the guard, messages_sent + messages_failed is
\* the number of messages removed from the pool; it never exceeds the initial
\* pool size.
C3_CountedEqualsRemoved ==
  Constructed =>
    /\ lock = NoTask => Counted = InitialPoolSize - Len(msg_pool)
    /\ Counted <= InitialPoolSize

\* The guard is free in the middle of a run: some messages gone, some left.
C3_Witness ==
  /\ pc_main = "gather"
  /\ lock = NoTask
  /\ Len(msg_pool) > 0
  /\ Len(msg_pool) < InitialPoolSize
  /\ Counted > 0

\* ---------------------------------------------------------------------- C4
\* C4: at most one task is inside a guarded section, and a task at any
\* statement of a guarded section (re-check, pop, statistics update, the
\* monitor's read and print) holds the lock.
C4_MutualExclusion ==
  /\ Cardinality({t \in Tasks : InGuard(t)}) <= 1
  /\ \A t \in Tasks : InGuard(t) => lock = t

\* A sender about to pop while another sender and the monitor wait to enter.
C4_Witness ==
  \E t, u \in Tasks :
    /\ t # Monitor /\ u # Monitor /\ t # u
    /\ pc[t] = "pop"
    /\ pc[u] = "sleep"
    /\ pc[Monitor] = "sleep"

\* ---------------------------------------------------------------------- C5
\* C5: a task that is in its delay (or at the top of its loop, or finished)
\* does not hold the lock, and a task whose delay is over can enter the
\* guarded section exactly when no task is inside one: sleepers block nobody.
C5_NoLockAcrossSleep ==
  /\ \A t \in Tasks : pc[t] \in {"loop", "sleep", "done"} => lock # t
  /\ \A t \in Tasks \ {Monitor} :
       pc[t] = "sleep" =>
         (ENABLED SenderAcquire(t) <=> \A u \in Tasks : ~InGuard(u))
  /\ (Monitor \in Tasks /\ pc[Monitor] = "sleep") =>
       (ENABLED MonitorAcquire <=> \A u \in Tasks : ~InGuard(u))

\* Two senders in their delay at once while the monitor is inside the guard.
C5_Witness ==
  /\ Monitor \in Tasks
  /\ lock = Monitor
  /\ Cardinality({t \in Tasks : t # Monitor /\ pc[t] = "sleep"}) >= 2

\* ---------------------------------------------------------------------- C6
\* C6: send_msgs() spawns exactly num_senders senders and one monitor, nothing
\* is spawned before it, and it has returned only when every one of them has
\* left its loop and the lock is free.
C6_ReturnsAfterAllTasks ==
  /\ Spawned => Tasks = (1..self.num_senders) \cup {Monitor}
  /\ ~Spawned => Tasks = {}
  /\ pc_main = "returned" =>
       /\ \A t \in Tasks : pc[t] = "done"
       /\ lock = NoTask

\* The run has returned with the most senders and a report printed.
C6_Witness ==
  /\ pc_main = "returned"
  /\ Cardinality(Tasks) = MaxSenders + 1
  /\ last_report.printed

\* ---------------------------------------------------------------------- C7
\* C7: under fairness of every task (every sleep ends, every request for the
\* lock is granted in the end), a constructed manager's run
\* terminates: eventually the pool is empty, every task has left its loop and
\* send_msgs() has returned (so no deadlock or livelock can be reached).
C7_RunTerminates ==
  (pc_main = "constructed") ~>
    (/\ pc_main = "returned"
     /\ msg_pool = <<>>
     /\ \A t \in Tasks : pc[t] = "done")

\* A returned run in which the senders outnumbered the messages.
C7_Witness ==
  /\ pc_main = "returned"
  /\ self.num_senders > InitialPoolSize
  /\ \A t \in Tasks : pc[t] = "done"

\* ---------------------------------------------------------------------- C8
\* C8: once constructed, every step leaves the pool as it is or removes
\* exactly one message and adds none; the run starts with the initial count
\* and returns with an empty pool.
C8_PoolOnlyShrinks ==
  [][/\ Constructed =>
          /\ Len(msg_pool') \in {Len(msg_pool), Len(msg_pool) - 1}
          /\ \A i \in 1..Len(msg_pool') : InPool(msg_pool'[i])
     /\ pc_main = "constructed" => Len(msg_pool) = InitialPoolSize
     /\ pc_main' = "returned" => Len(msg_pool') = 0]_vars

\* A failed send has been recorded and its message is not back in the pool.
C8_Witness ==
  /\ pc_main = "gather"
  /\ \E i \in 1..Len(log) : ~log[i].sent_status /\ ~InPool(log[i].msg)
  /\ stats.messages_failed > 0
  /\ Len(msg_pool) > 0

\* ---------------------------------------------------------------------- C9
\* The constraints as the interface states them.
IsInt(x) == x.kind = "int"
WrongKind(a) ==
  \/ ~IsInt(a.avg_send_time)
  \/ ~IsInt(a.avg_send_time_factor)
  \/ ~IsInt(a.failure_rate)
  \/ a.msg_pool.kind # "list"
  \/ ~IsInt(a.num_senders)
  \/ ~IsInt(a.progress_monitor_refresh_rate)
OutOfRange(a) ==
  \/ IsInt(a.avg_send_time) /\ a.avg_send_time.val < 2
  \/ IsInt(a.avg_send_time_factor) /\ a.avg_send_time_factor.val < 0
  \/ IsInt(a.failure_rate) /\ a.failure_rate.val \notin 0..100
  \/ a.msg_pool.kind = "list" /\ a.msg_pool.val = <<>>
  \/ IsInt(a.num_senders) /\ a.num_senders.val < 1
  \/ IsInt(a.progress_monitor_refresh_rate)
       /\ a.progress_monitor_refresh_rate.val < 1

\* C9: for inputs that violate a stated constraint, construction ends with
\* TypeError (only if some argument has the wrong kind) or ValueError (only if
\* some argument is out of range), nothing is assigned and no task is ever
\* spawned; no task exists before construction either.
C9_InvalidInputsRejected ==
  /\ pc_main = "construct" => Tasks = {}
  /\ (pc_main # "construct" /\ (WrongKind(args) \/ OutOfRange(args))) =>
       /\ pc_main = "raised"
       /\ exc \in {"TypeError", "ValueError"}
       /\ exc = "TypeError" => WrongKind(args)
       /\ exc = "ValueError" => OutOfRange(args)
       /\ self = NoSelf
       /\ Tasks = {}

\* Construction was refused because of num_senders = 0 alone.
C9_Witness ==
  /\ pc_main = "raised"
  /\ exc = "ValueError"
  /\ args.num_senders = IntArg(0)
  /\ ~WrongKind(args)
  /\ args.avg_send_time.val >= 2
  /\ args.avg_send_time_factor.val >= 0
  /\ args.failure_rate.val \in 0..100
  /\ args.msg_pool.val # <<>>
  /\ args.progress_monitor_refresh_rate.val >= 1

\* --------------------------------------------------------------------- C10
\* C10: with failure_rate = 0 every processed message is stamped and logged
\* as sent, messages_failed stays 0, and a completed run has
\* messages_sent equal to the initial pool size.
C10_ZeroFailureRate ==
  (Constructed /\ self.failure_rate = 0) =>
    /\ stats.messages_failed = 0
    /\ \A i \in 1..Len(log) : log[i].sent_status /\ msgs[log[i].msg].sent_status
    /\ \A t \in Tasks : (t # Monitor /\ pc[t] = "sleep") => local[t].msg_state
    /\ pc_main = "returned" => stats.messages_sent = InitialPoolSize

\* A completed run with failure_rate = 0 over the largest pool.
C10_Witness ==
  /\ pc_main = "returned"
  /\ self.failure_rate = 0
  /\ InitialPoolSize = MaxPool
  /\ stats.messages_sent = MaxPool

\* --------------------------------------------------------------------- C11
\* C11: with failure_rate = 100 every processed message is stamped and
\* logged as not sent, messages_sent and total_send_time stay 0, and a
\* completed run has messages_failed equal to the initial pool size.
C11_FullFailureRate ==
  (Constructed /\ self.failure_rate = 100) =>
    /\ stats.messages_sent = 0
    /\ stats.total_send_time = 0
    /\ \A i \in 1..Len(log) : ~log[i].sent_status /\ ~msgs[log[i].msg].sent_status
    /\ \A t \in Tasks : (t # Monitor /\ pc[t] = "sleep") => ~local[t].msg_state
    /\ pc_main = "returned" => stats.messages_failed = InitialPoolSize

\* A completed run with failure_rate = 100 over the largest pool, every
\* message stamped with its (positive) delay.
C11_Witness ==
  /\ pc_main = "returned"
  /\ self.failure_rate = 100
  /\ InitialPoolSize = MaxPool
  /\ stats.messages_failed = MaxPool
  /\ \A m \in AllMessages : msgs[m].send_time > 0

\* --------------------------------------------------------------------- C12
\* The statistics that the first n log records amount to.
RECURSIVE TotalOfSent(_, _)
TotalOfSent(l, n) ==
  IF n = 0 THEN 0
  ELSE TotalOfSent(l, n - 1) + (IF l[n].sent_status THEN l[n].send_time ELSE 0)
SentIn(l, n) == Cardinality({i \in 1..n : l[i].sent_status})
FailedIn(l, n) == Cardinality({i \in 1..n : ~l[i].sent_status})

\* C12: right after the monitor has printed (it still holds the lock), the
\* printed sent + failed equals initial pool size minus pool size, and the
\* printed numbers are those of the statistics after all sender updates
\* completed so far (the whole log), the average being their total / sent;
\* between its two reads the statistics do not change.
C12_ReportIsSnapshot ==
  /\ (Spawned /\ pc[Monitor] = "print") =>
       /\ local[Monitor].average_send_time = AverageSendTime(stats)
       /\ stats.messages_sent = SentIn(log, Len(log))
       /\ stats.messages_failed = FailedIn(log, Len(log))
       /\ stats.total_send_time = TotalOfSent(log, Len(log))
  /\ (Spawned /\ pc[Monitor] = "release") =>
       /\ last_report.printed
       /\ last_report.messages_sent + last_report.messages_failed
            = InitialPoolSize - Len(msg_pool)
       /\ last_report.messages_sent = SentIn(log, Len(log))
       /\ last_report.messages_failed = FailedIn(log, Len(log))
       /\ last_report.average_x100 =
            IF SentIn(log, Len(log)) = 0 THEN 0
            ELSE Fmt2(TotalOfSent(log, Len(log)), SentIn(log, Len(log)))

\* A report printed in the middle of a run, after a success and a failure,
\* while a sender waits with its delay over.
C12_Witness ==
  /\ Spawned
  /\ pc[Monitor] = "release"
  /\ last_report.messages_sent > 0
  /\ last_report.messages_failed > 0
  /\ msg_pool # <<>>
  /\ \E t \in Tasks : t # Monitor /\ pc[t] = "sleep"

\* --------------------------------------------------------------------- C13
Abs(x) == IF x >= 0 THEN x ELSE -x
\* x100 hundredths is num / den to the two decimals printed.
IsTwoDecimalsOf(x100, num, den) == 2 * Abs(x100 * den - 100 * num) <= den

\* C13: the monitor's average step always leads to the print step (no error
\* exit), with average_send_time 0.0 when messages_sent is 0 and otherwise
\* exactly total_send_time / messages_sent; the print step shows 0.00 when
\* messages_sent is 0 and otherwise that quotient to two decimals, and leads
\* to the release, after which the monitor is back at the top of its loop.
C13_AverageOfNothingIsZero ==
  [][Spawned =>
       /\ (pc[Monitor] = "average" /\ pc'[Monitor] # "average") =>
            /\ pc'[Monitor] = "print"
            /\ LET avg == local'[Monitor].average_send_time IN
                 IF stats.messages_sent = 0
                   THEN avg.num = 0 /\ avg.den > 0
                   ELSE /\ avg.den > 0
                        /\ avg.num * stats.messages_sent
                             = stats.total_send_time * avg.den
       /\ (pc[Monitor] = "print" /\ pc'[Monitor] # "print") =>
            /\ pc'[Monitor] = "release"
            /\ last_report'.printed
            /\ IF stats.messages_sent = 0
                 THEN last_report'.average_x100 = 0
                 ELSE IsTwoDecimalsOf(last_report'.average_x100,
                                      stats.total_send_time, stats.messages_sent)
       /\ (pc[Monitor] = "release" /\ pc'[Monitor] # "release") =>
            pc'[Monitor] = "loop" /\ lock' = NoTask]_vars

\* The monitor printed a report while nothing had been sent yet (a failure
\* had been counted) and has gone on to its next wait.
C13_Witness ==
  /\ Spawned
  /\ pc[Monitor] = "sleep"
  /\ last_report.printed
  /\ last_report.messages_sent = 0
  /\ last_report.average_x100 = 0
  /\ last_report.messages_failed > 0

\* --------------------------------------------------------------------- C14
\* A sender that is past its re-check without having taken a message.
FoundEmpty(t) == pc[t] = "release" /\ local[t].current_msg = 0

\* C14: a sender that finds the pool empty at its guarded re-check goes
\* straight to the release and changes nothing (pool, statistics, message
\* stamps, log); its release changes only the lock and drops its drawn
\* send_time and msg_state; its next loop-top check ends its loop.
C14_EmptyRecheckChangesNothing ==
  [][Spawned =>
       \A t \in Tasks \ {Monitor} :
         /\ (pc[t] = "recheck" /\ msg_pool = <<>> /\ pc'[t] # "recheck") =>
              /\ pc'[t] = "release"
              /\ local'[t].current_msg = 0
              /\ UNCHANGED <<msg_pool, stats, msgs, log, last_report>>
         /\ (FoundEmpty(t) /\ pc'[t] # "release") =>
              /\ pc'[t] = "loop"
              /\ local'[t] = NoLocal
              /\ msg_pool' = <<>>
              /\ UNCHANGED <<msg_pool, stats, msgs, log, last_report>>
         /\ (pc[t] = "loop" /\ msg_pool = <<>> /\ pc'[t] # "loop") =>
              /\ pc'[t] = "done"
              /\ UNCHANGED <<msg_pool, stats, msgs, log, last_report>>]_vars

\* A sender drew a failure and a delay at a non-empty pool, found the pool
\* empty under the guard, and nothing was counted as failed.
C14_Witness ==
  /\ Spawned
  /\ \E t \in Tasks \ {Monitor} :
       /\ FoundEmpty(t)
       /\ ~local[t].msg_state
       /\ local[t].send_time > 0
  /\ msg_pool = <<>>
  /\ stats.messages_failed = 0
  /\ stats.messages_sent = InitialPoolSize

\* --------------------------------------------------------------------- C15
\* C15: after construction the statistics change only in the statistics step
\* of the sender that holds the lock and has just popped a message; that step
\* follows every pop, and it adds 1 to messages_sent and the sender's own
\* send_time to total_send_time on success (messages_failed unchanged), or 1
\* to messages_failed on failure (the other two unchanged).
C15_StatsUpdateByOutcome ==
  [][Spawned =>
       /\ stats' # stats =>
            /\ lock \in Tasks \ {Monitor}
            /\ pc[lock] = "stats" /\ pc'[lock] = "release"
            /\ local[lock].current_msg # 0
            /\ IF local[lock].msg_state
                 THEN /\ stats'.messages_sent = stats.messages_sent + 1
                      /\ stats'.total_send_time
                           = stats.total_send_time + local[lock].send_time
                      /\ stats'.messages_failed = stats.messages_failed
                 ELSE /\ stats'.messages_failed = stats.messages_failed + 1
                      /\ stats'.messages_sent = stats.messages_sent
                      /\ stats'.total_send_time = stats.total_send_time
       /\ \A t \in Tasks \ {Monitor} :
            /\ (pc[t] = "pop" /\ pc'[t] # "pop") => pc'[t] = "stats"
            /\ (pc[t] = "stats" /\ pc'[t] # "stats") => stats' # stats]_vars

\* A success with a send time other than the average has just been counted,
\* after an earlier failure.
C15_Witness ==
  /\ Spawned
  /\ \E t \in Tasks \ {Monitor} :
       /\ pc[t] = "release"
       /\ local[t].current_msg # 0
       /\ local[t].msg_state
       /\ local[t].send_time # self.avg_send_time
       /\ stats.total_send_time = local[t].send_time
  /\ stats.messages_sent = 1
  /\ stats.messages_failed = 1

\* --------------------------------------------------------------------- C16
\* C16: the monitor's loop-top check ends the loop exactly when it sees an
\* empty pool, and a finished monitor prints nothing more; after a loop-top
\* check that saw a non-empty pool the monitor goes from its wait to the
\* average, the print (which emits a report) and the release in turn,
\* whatever the pool has become; nothing but the print step emits a report.
C16_EmptinessTestedAtLoopTopOnly ==
  [][Spawned =>
       /\ (pc[Monitor] = "loop" /\ pc'[Monitor] # "loop") =>
            /\ pc'[Monitor] = (IF msg_pool = <<>> THEN "done" ELSE "sleep")
            /\ last_report' = last_report
       /\ pc[Monitor] = "done" =>
            pc'[Monitor] = "done" /\ last_report' = last_report
       /\ (pc[Monitor] = "sleep" /\ pc'[Monitor] # "sleep") =>
            pc'[Monitor] = "average" /\ last_report' = last_report
       /\ (pc[Monitor] = "average" /\ pc'[Monitor] # "average") =>
            pc'[Monitor] = "print" /\ last_report' = last_report
       /\ (pc[Monitor] = "print" /\ pc'[Monitor] # "print") =>
            /\ pc'[Monitor] = "release"
            /\ last_report'.printed
            /\ last_report'.messages_sent = stats.messages_sent
            /\ last_report'.messages_failed = stats.messages_failed
       /\ last_report' # last_report => pc[Monitor] = "print"]_vars

\* The pool was drained during the monitor's wait and the monitor has
\* nevertheless printed its report, which shows the final totals.
C16_Witness ==
  /\ Spawned
  /\ pc[Monitor] = "release"
  /\ msg_pool = <<>>
  /\ InitialPoolSize = MaxPool
  /\ last_report.messages_sent + last_report.messages_failed = InitialPoolSize

\* --------------------------------------------------------------------- C17
\* One record per removed message, in the order of the removals (the list is
\* popped from its end), each with the stamps of its message.
LogMatchesRemovals ==
  /\ Len(log) = InitialPoolSize - Len(msg_pool)
  /\ \A i \in 1..Len(log) :
       /\ log[i].msg = InitialPoolSize - i + 1
       /\ ~InPool(log[i].msg)
       /\ log[i].send_time = msgs[log[i].msg].send_time
       /\ log[i].sent_status = msgs[log[i].msg].sent_status
       /\ log[i].send_time \in
            SendTimes(self.avg_send_time, self.avg_send_time_factor)

\* C17: the log only grows, by one record in exactly the steps that remove a
\* message from the pool, the record being that of the removed message with
\* the remover's send_time and outcome, success or failure; so in every
\* state of a run the log has one record per removed message, in removal
\* order, carrying the stamps of the message.
C17_LogRecordsEveryRemoval ==
  [][Spawned =>
       /\ LogMatchesRemovals
       /\ LogMatchesRemovals'
       /\ log' # log <=> msg_pool' # msg_pool
       /\ log' # log =>
            /\ lock \in Tasks \ {Monitor}
            /\ pc[lock] = "pop"
            /\ log' = Append(log, [msg |-> msg_pool[Len(msg_pool)],
                                   send_time |-> local[lock].send_time,
                                   sent_status |-> local[lock].msg_state])]_vars

\* Two records with different send times, the first of a failed send, and
\* the guard free.
C17_Witness ==
  /\ Spawned
  /\ lock = NoTask
  /\ Len(log) = 2
  /\ ~log[1].sent_status
  /\ log[2].sent_status
  /\ log[1].send_time # log[2].send_time
  /\ log[1].msg = InitialPoolSize

\* --------------------------------------------------------------------- C18
\* d is an integer with max(a - f, 1) <= d <= a + f, and so at least 1.
InSendTimeRange(d, a, f) ==
  /\ d \in Int
  /\ d >= 1
  /\ d >= a - f
  /\ d <= a + f
  /\ f = 0 => d = a

\* C18: every send_time a sender has drawn (and sleeps for or holds under the
\* guard), stamped on a message or logged lies in
\* [max(avg - factor, 1), avg + factor]; a sender at the top of its loop with
\* a non-empty pool can always draw one (the interval is not empty).
C18_SendTimeInRange ==
  Spawned =>
    LET a == self.avg_send_time
        f == self.avg_send_time_factor
    IN /\ \A t \in Tasks \ {Monitor} :
            /\ pc[t] \in {"sleep", "recheck", "pop", "stats"} =>
                 InSendTimeRange(local[t].send_time, a, f)
            /\ (pc[t] = "loop" /\ msg_pool # <<>>) => ENABLED SenderLoop(t)
       /\ \A i \in 1..Len(log) :
            /\ InSendTimeRange(log[i].send_time, a, f)
            /\ InSendTimeRange(msgs[log[i].msg].send_time, a, f)

\* With the factor above the average, a message was stamped with 1 second.
C18_Witness ==
  /\ Spawned
  /\ self.avg_send_time_factor > self.avg_send_time
  /\ Len(log) = 1
  /\ log[1].send_time = 1
  /\ msgs[log[1].msg].send_time = 1

\* The largest send time of the widest interval is drawn too.
C18_WitnessUpper ==
  /\ Spawned
  /\ \E t \in Tasks \ {Monitor} :
       pc[t] = "sleep" /\ local[t].send_time = MaxAvgSendTime + MaxFactor

\* --------------------------------------------------------------------- C19
\* Sum of the send_time stamped on the messages of the first n log records
\* whose stamped outcome is success.
RECURSIVE SumOfSuccessfulStamps(_, _)
SumOfSuccessfulStamps(l, n) ==
  IF n = 0 THEN 0
  ELSE SumOfSuccessfulStamps(l, n - 1)
         + (IF msgs[l[n].msg].sent_status THEN msgs[l[n].msg].send_time ELSE 0)

LastReportIsFinal ==
  /\ last_report.printed
  /\ msg_pool = <<>>
  /\ last_report.messages_sent + last_report.messages_failed = InitialPoolSize
  /\ last_report.messages_sent = stats.messages_sent
  /\ last_report.messages_failed = stats.messages_failed

\* C20: under the event loop's cooperative scheduling, once the tasks are
\* created the monitor eventually prints a report, and whenever the monitor
\* has finished, its last report was printed with the pool already empty and
\* shows messages_sent + messages_failed = initial pool size.
C20_LastReportShowsFinalTotals ==
  /\ [](Spawned /\ pc[Monitor] = "done" => LastReportIsFinal)
  /\ (Spawned ~> (Spawned /\ pc[Monitor] = "done" /\ last_report.printed))

\* The monitor finished after a run of several messages and senders, one
\* sender still being asleep.
C20_Witness ==
  /\ Spawned
  /\ pc[Monitor] = "done"
  /\ InitialPoolSize >= 2
  /\ self.num_senders >= 2
  /\ \E t \in Tasks \ {Monitor} : pc[t] = "sleep"
  /\ LastReportIsFinal
====
